---- MODULE Spec2Model ----
(***************************************************************************)
(* A model of the EELS background-subtraction plug-in                      *)
(* (nionswift_plugin/nion_eels_analysis/BackgroundSubtraction.py):         *)
(*   - the three computation handlers and their execute / commit contract, *)
(*   - the background-model component listener,                            *)
(*   - normalized_interval,                                                *)
(*   - the three menu commands that build computations in the document.    *)
(* Host objects (data items, graphics, data structures, components) are    *)
(* modelled by their identity; xdata values by the execute that made them. *)
(***************************************************************************)
EXTENDS Integers, Sequences, FiniteSets, TLC

VARIABLES
    \* ---- one computation handler instance and the host objects around it
    kind,         \* the handler class of the instance
    registry,     \* Registry: the registered components, in registration order
    modelInput,   \* structure_type of the background_model input
    fitGraphics,  \* the intervals of the fit_interval_graphics input, in order
    buf,          \* the instance's private attributes (name-mangled __*_xdata)
    published,    \* host-owned outputs, written by set_referenced_xdata
    completed,    \* what the most recent execute that completed computed
    runs,         \* number of execute calls so far
    last,         \* the last handler call: what it did
    \* ---- plug-in load and component registration
    loaded,       \* the plug-in module has been imported
    entities,     \* entities registered with DataStructure
    \* ---- normalized_interval
    ivIn, ivOut,
    \* ---- the document and the menu commands
    doc,          \* data items, graphics, data structures, computations, display
    sel,          \* window: target display, target data item, selected graphics
    menu          \* the last menu command: what it did

vars == <<kind, registry, modelInput, fitGraphics, buf, published, completed,
          runs, last, loaded, entities, ivIn, ivOut, doc, sel, menu>>

handlerVars == <<kind, modelInput, fitGraphics, buf, published, completed, runs, last>>
intervalVars == <<ivIn, ivOut>>
menuVars == <<doc, sel, menu>>

\* ------------------------------------------------------------------ bounds
MaxRuns == 2         \* execute calls on the instance
MaxComponents == 2   \* components in the registry
MaxCommands == 2     \* menu commands run on the document
MaxEndpoint == 5     \* normalized_interval is applied to endpoints in -MaxEndpoint..MaxEndpoint

\* The upper end 1.0 of the background interval, in grid units of 0.5.
One == 2

\* ------------------------------------------------------------ normalized_interval
Min2(a, b) == IF a <= b THEN a ELSE b
Max2(a, b) == IF a >= b THEN a ELSE b

normalized_interval_identity(interval) == interval
normalized_interval(interval) == <<Min2(interval[1], interval[2]), Max2(interval[1], interval[2])>>

RECURSIVE SeqsUpTo(_, _)
SeqsUpTo(S, n) ==
    IF n = 0 THEN {<<>>}
    ELSE LET shorter == SeqsUpTo(S, n - 1)
         IN shorter \cup {Append(s, x) : s \in {t \in shorter : Len(t) = n - 1}, x \in S}

\* ------------------------------------------------------------------ handlers
FitBackground == "EELSFitBackground"
SubtractBackground == "EELSSubtractBackground"
MapSignal == "EELSMapBackgroundSubtractedSignal"
HandlerKinds == {FitBackground, SubtractBackground, MapSignal}

\* The class attributes `inputs` and `outputs`.
HandlerInputs(k) ==
    CASE k = FitBackground -> {"eels_spectrum_data_item", "background_model", "fit_interval_graphics"}
      [] k = SubtractBackground -> {"spectrum_image_data_item", "background_model", "fit_interval_graphics"}
      [] k = MapSignal -> {"spectrum_image_data_item", "eels_spectrum_data_item", "background_model",
                           "fit_interval_graphics", "signal_interval_graphic"}

HandlerOutputs(k) ==
    CASE k = FitBackground -> {"background", "subtracted"}
      [] k = SubtractBackground -> {"subtracted"}
      [] k = MapSignal -> {"map"}

\* xdata objects: identified by the execute that made them, who made them and as what.
XData(run, by, what) == [run |-> run, by |-> by, what |-> what]
None == XData(0, 0, "None")
\* an attribute that has never been assigned: reading it raises AttributeError
Unset == XData(0, 0, "unset")

Attributes == {"background_xdata", "subtracted_xdata", "mapped_xdata"}
OutputNames == {"background", "subtracted", "map"}

\* __init__: only EELSFitBackground assigns its buffers (to None).
HandlerInit(k) ==
    IF k = FitBackground
    THEN [a \in Attributes |-> IF a = "mapped_xdata" THEN Unset ELSE None]
    ELSE [a \in Attributes |-> Unset]

ModelIds == {"power_law_fit_background_model", "other_background_model"}
ComponentTypes == {"background-model", "other-type"}

\* Registry.get_components_by_type: positions in the registry of the components of type t.
GetComponentsByType(t) == SelectSeq([i \in 1..Len(registry) |-> i], LAMBDA i : t \in registry[i].types)

\* What a component's operation does when invoked: it is external code. It raises, or
\* returns its result without "subtracted_spectrum", with that key holding None, or with
\* a subtracted spectrum under it.
Behaviours == {"raise", "plain", "subtracted_is_none", "with_subtracted"}

SpectrumStates == {"no_xdata", "not_1d", "not_eV", "ok"}
ImageStates == {"no_xdata", "not_1d", "not_navigable", "not_eV", "ok"}
EelsStates == {"absent"} \cup SpectrumStates

SeqFirst(s) == s[1]
RECURSIVE SeqMin(_)
SeqMin(s) == IF Len(s) = 1 THEN s[1] ELSE Min2(s[1], SeqMin(Tail(s)))

NormalizedIntervals(graphics) == [i \in 1..Len(graphics) |-> normalized_interval(graphics[i])]

\* The accumulator of an execute: local variables and what was called.
NoCalls == [background |-> None, subtracted |-> None, mapped |-> None, invoked |-> <<>>,
            core |-> <<>>, raised |-> FALSE]

\* fit_result.get("subtracted_spectrum", None), line 70.
FitResultGet(beh, run, i) ==
    IF beh = "with_subtracted" THEN XData(run, i, "subtracted_spectrum") ELSE None

\* The left operand of the 'or' of line 70 is taken, and the right one not evaluated.
TakesLeftNever(got) == FALSE
TakesLeft(got) == got # None

SelectsAny(id, c) == TRUE
Selects(id, c) == id = c.background_model_id

\* The loop over the components, lines 65-70, 111-114, 163-166.
RECURSIVE ComponentLoop(_, _, _, _, _, _)
ComponentLoop(k, comps, j, id, in, acc) ==
    IF j > Len(comps) THEN acc
    ELSE LET i == comps[j]
         IN IF ~Selects(id, registry[i]) THEN ComponentLoop(k, comps, j + 1, id, in, acc)
            ELSE IF in.beh[i] = "raise"
                 THEN [acc EXCEPT !.invoked = Append(@, i), !.raised = TRUE]
                 ELSE LET called == [acc EXCEPT !.invoked = Append(@, i)]
                          next ==
                            CASE k = FitBackground ->
                                   IF TakesLeft(FitResultGet(in.beh[i], in.run, i))
                                   THEN [called EXCEPT !.background = XData(in.run, i, "background_model"),
                                                       !.subtracted = FitResultGet(in.beh[i], in.run, i)]
                                   ELSE [called EXCEPT !.background = XData(in.run, i, "background_model"),
                                                       !.subtracted = XData(in.run, i, "calibrated_subtract_spectrum"),
                                                       !.core = Append(@, i)]
                              [] k = SubtractBackground ->
                                   [called EXCEPT !.subtracted = XData(in.run, i, "subtracted")]
                              [] k = MapSignal ->
                                   [called EXCEPT !.mapped = XData(in.run, i, "integrated")]
                      IN ComponentLoop(k, comps, j + 1, id, in, next)

Failed(why) == [ok |-> FALSE, error |-> why, result |-> [a \in Attributes |-> Unset],
                invoked |-> <<>>, core |-> <<>>, fit_intervals |-> <<>>,
                interval |-> <<0, 0>>]

\* The value an execute buffers: the one a component made or, when the loop left the
\* local None, the fallback (lines 71-74, 115-116, 167-168).
OrFallbackMissing(value, fallback) == value
OrFallback(value, fallback) == IF value = None THEN fallback ELSE value

\* The assertions on the spectrum image, lines 100-103 and 145-148.
ImageOk(in) == in.image = "ok"
\* The assertions on the spectrum, lines 51-53 and 151-155.
SpectrumOk(in) == in.spectrum = "ok"

\* EELSFitBackground.execute
ExecuteFit(in) ==
    IF ~SpectrumOk(in) THEN Failed("AssertionError")
    ELSE LET fit_intervals == NormalizedIntervals(fitGraphics)
         IN IF fit_intervals = <<>> THEN Failed("ValueError")
            ELSE LET fit_minimum == SeqMin([i \in 1..Len(fit_intervals) |-> fit_intervals[i][1]])
                     signal_interval == <<fit_minimum, One>>
                     acc == ComponentLoop(FitBackground, GetComponentsByType("background-model"), 1,
                                          modelInput, in, NoCalls)
                     background_xdata == OrFallback(acc.background, XData(in.run, 0, "zeros_like"))
                     subtracted_xdata == OrFallback(acc.subtracted, XData(in.run, 0, "signal_slice"))
                 IN IF acc.raised
                    THEN [Failed("ComponentError") EXCEPT !.invoked = acc.invoked, !.core = acc.core,
                             !.fit_intervals = fit_intervals, !.interval = signal_interval]
                    ELSE [ok |-> TRUE, error |-> "",
                          result |-> [a \in Attributes |->
                                        CASE a = "background_xdata" -> background_xdata
                                          [] a = "subtracted_xdata" -> subtracted_xdata
                                          [] OTHER -> Unset],
                          invoked |-> acc.invoked, core |-> acc.core,
                          fit_intervals |-> fit_intervals, interval |-> signal_interval]

\* EELSSubtractBackground.execute
ExecuteSubtract(in) ==
    IF ~ImageOk(in) THEN Failed("AssertionError")
    ELSE LET fit_intervals == NormalizedIntervals(fitGraphics)
             acc == ComponentLoop(SubtractBackground, GetComponentsByType("background-model"), 1,
                                  modelInput, in, NoCalls)
             subtracted_xdata == OrFallback(acc.subtracted, XData(in.run, 0, "zeros"))
         IN IF acc.raised
            THEN [Failed("ComponentError") EXCEPT !.invoked = acc.invoked, !.fit_intervals = fit_intervals]
            ELSE [ok |-> TRUE, error |-> "",
                  result |-> [a \in Attributes |-> IF a = "subtracted_xdata" THEN subtracted_xdata ELSE Unset],
                  invoked |-> acc.invoked, core |-> <<>>,
                  fit_intervals |-> fit_intervals, interval |-> <<0, 0>>]

\* EELSMapBackgroundSubtractedSignal.execute
ExecuteMap(in) ==
    IF ~ImageOk(in) THEN Failed("AssertionError")
    ELSE IF in.spectrum # "absent" /\ ~SpectrumOk(in) THEN Failed("AssertionError")
    ELSE LET fit_intervals == NormalizedIntervals(fitGraphics)
             signal_interval == normalized_interval(in.signal)
             acc == ComponentLoop(MapSignal, GetComponentsByType("background-model"), 1,
                                  modelInput, in, NoCalls)
             mapped_xdata == OrFallback(acc.mapped, XData(in.run, 0, "zeros"))
         IN IF acc.raised
            THEN [Failed("ComponentError") EXCEPT !.invoked = acc.invoked, !.fit_intervals = fit_intervals,
                     !.interval = signal_interval]
            ELSE [ok |-> TRUE, error |-> "",
                  result |-> [a \in Attributes |-> IF a = "mapped_xdata" THEN mapped_xdata ELSE Unset],
                  invoked |-> acc.invoked, core |-> <<>>,
                  fit_intervals |-> fit_intervals, interval |-> signal_interval]

RunExecute(k, in) ==
    CASE k = FitBackground -> ExecuteFit(in)
      [] k = SubtractBackground -> ExecuteSubtract(in)
      [] k = MapSignal -> ExecuteMap(in)

\* The attributes an execute assigns at its end (lines 75-76, 117, 169).
Assigned(k) ==
    CASE k = FitBackground -> {"background_xdata", "subtracted_xdata"}
      [] k = SubtractBackground -> {"subtracted_xdata"}
      [] k = MapSignal -> {"mapped_xdata"}

\* The components an execute of this instance can reach, and what each does when invoked.
Invocable == {i \in 1..Len(registry) :
                "background-model" \in registry[i].types /\ Selects(modelInput, registry[i])}
\* Only fit_background has a result that may carry "subtracted_spectrum".
BehavioursOf(k) == IF k = FitBackground THEN Behaviours ELSE {"raise", "plain"}
BehaviourChoices ==
    {[i \in 1..Len(registry) |-> IF i \in Invocable THEN g[i] ELSE "plain"] :
        g \in [Invocable -> BehavioursOf(kind)]}

\* Representative signal_interval_graphic inputs: one as drawn, one dragged backwards.
SomeSignals == {<<1, 2>>, <<2, 0>>}

\* The inputs the host may hand to an execute of handler k: the state of the data
\* items' xdata, the signal interval, and the behaviour of the external components.
DataChoices(k) ==
    CASE k = FitBackground -> [image : {"absent"}, spectrum : SpectrumStates]
      [] k = SubtractBackground -> [image : ImageStates, spectrum : {"absent"}]
      [] k = MapSignal -> [image : ImageStates \ {"ok"}, spectrum : {"absent"}]
                          \cup [image : {"ok"}, spectrum : EelsStates]

ExecuteInputs(k) ==
    {[run |-> runs + 1, image |-> d.image, spectrum |-> d.spectrum, signal |-> s, beh |-> b] :
        d \in DataChoices(k),
        s \in (IF k = MapSignal THEN SomeSignals ELSE {<<0, 0>>}),
        b \in BehaviourChoices}

NoCall == [op |-> "none", ok |-> TRUE, error |-> "", calls |-> <<>>, invoked |-> <<>>,
           core |-> <<>>, fit_intervals |-> <<>>, interval |-> <<0, 0>>,
           data |-> [image |-> "absent", spectrum |-> "absent"], returned |-> <<>>]

\* What execute does to the host-owned outputs: nothing.
PublishedByExecuteEarly(k, r) ==
    [n \in OutputNames |->
        IF r.ok /\ n = "subtracted" /\ k # MapSignal THEN r.result["subtracted_xdata"] ELSE published[n]]
PublishedByExecute(k, r) == published

\* The private attributes after an execute with result r (lines 75-76, 117, 169).
BuffersAfterExecuteAlways(k, r) ==
    [a \in Attributes |-> IF a \in Assigned(k) THEN r.result[a] ELSE buf[a]]
BuffersAfterExecute(k, r) ==
    IF r.ok THEN [a \in Attributes |-> IF a \in Assigned(k) THEN r.result[a] ELSE buf[a]]
    ELSE buf

Execute ==
    /\ runs < MaxRuns
    /\ \E in \in ExecuteInputs(kind) :
         LET r == RunExecute(kind, in)
         IN /\ buf' = BuffersAfterExecute(kind, r)
            /\ published' = PublishedByExecute(kind, r)
            /\ completed' = IF r.ok THEN r.result ELSE completed
            /\ last' = [op |-> "execute", ok |-> r.ok, error |-> r.error, calls |-> <<>>,
                        invoked |-> r.invoked, core |-> r.core,
                        fit_intervals |-> r.fit_intervals, interval |-> r.interval,
                        data |-> [image |-> in.image, spectrum |-> in.spectrum],
                        returned |-> [j \in 1..Len(r.invoked) |-> in.beh[r.invoked[j]]]]
    /\ runs' = runs + 1
    /\ UNCHANGED <<kind, registry, modelInput, fitGraphics, loaded, entities>>
    /\ UNCHANGED intervalVars
    /\ UNCHANGED menuVars

\* Which private attribute commit publishes under which output name.
CommitPairsSwapped(k) ==
    CASE k = FitBackground -> << <<"background", "subtracted_xdata">>, <<"subtracted", "background_xdata">> >>
      [] k = SubtractBackground -> << <<"subtracted", "subtracted_xdata">> >>
      [] k = MapSignal -> << <<"map", "mapped_xdata">> >>
CommitPairs(k) ==
    CASE k = FitBackground -> << <<"background", "background_xdata">>, <<"subtracted", "subtracted_xdata">> >>
      [] k = SubtractBackground -> << <<"subtracted", "subtracted_xdata">> >>
      [] k = MapSignal -> << <<"map", "mapped_xdata">> >>

\* commit's checks before its first set_referenced_xdata: the two assertions of
\* EELSFitBackground (lines 79-80); reading an attribute that was never assigned.
CommitErrorUnchecked(k) == ""
CommitError(k) ==
    IF \E j \in 1..Len(CommitPairs(k)) : buf[CommitPairs(k)[j][2]] = Unset THEN "AttributeError"
    ELSE IF k = FitBackground /\ (buf["background_xdata"] = None \/ buf["subtracted_xdata"] = None)
         THEN "AssertionError"
         ELSE ""

Commit ==
    LET err == CommitError(kind)
        pairs == CommitPairs(kind)
        calls == IF err = "" THEN [j \in 1..Len(pairs) |-> <<pairs[j][1], buf[pairs[j][2]]>>] ELSE <<>>
    IN /\ published' = [n \in OutputNames |->
                          IF \E j \in 1..Len(calls) : calls[j][1] = n
                          THEN (CHOOSE v \in {calls[j][2] : j \in {i \in 1..Len(calls) : calls[i][1] = n}} : TRUE)
                          ELSE published[n]]
       /\ last' = [NoCall EXCEPT !.op = "commit", !.ok = (err = ""), !.error = err, !.calls = calls]
       /\ UNCHANGED <<kind, registry, modelInput, fitGraphics, buf, completed, runs, loaded, entities>>
       /\ UNCHANGED intervalVars
       /\ UNCHANGED menuVars

\* ------------------------------------------------- one handler instance in its host
Components == [background_model_id : ModelIds, types : (SUBSET ComponentTypes) \ {{}}]
\* The components a handler instance is run with: registered under one type.
SingleTypeComponents == {c \in Components : Cardinality(c.types) = 1}

\* Representative fit_interval_graphics inputs: none, one, two (one dragged backwards).
SomeGraphics == {<<>>, << <<1, 2>> >>, << <<2, 1>>, <<0, 0>> >>}

IdleInterval == ivIn = <<0, 0>> /\ ivOut = <<>>
IdleHandler ==
    /\ kind = FitBackground
    /\ modelInput = "power_law_fit_background_model"
    /\ fitGraphics = <<>>
    /\ buf = HandlerInit(kind)
    /\ published = [n \in OutputNames |-> None]
    /\ completed = [a \in Attributes |-> Unset]
    /\ runs = 0
    /\ last = NoCall
IdleMenu == doc = <<>> /\ sel = <<>> /\ menu = <<>>

InitHandlers ==
    /\ kind \in HandlerKinds
    /\ registry \in SeqsUpTo(SingleTypeComponents, MaxComponents)
    /\ modelInput \in ModelIds
    /\ fitGraphics \in SomeGraphics
    /\ buf = HandlerInit(kind)
    /\ published = [n \in OutputNames |-> None]
    /\ completed = [a \in Attributes |-> Unset]
    /\ runs = 0
    /\ last = NoCall
    /\ loaded = TRUE
    /\ entities = {}
    /\ IdleInterval
    /\ IdleMenu

NextHandlers == Execute \/ Commit

SpecHandlers == InitHandlers /\ [][NextHandlers]_vars

\* ---------------------------------------------------------- claims on the handlers
NeverCompleted == completed = [a \in Attributes |-> Unset]

\* The private attribute whose value an output name is declared to carry.
ResultFor(n) ==
    CASE n = "background" -> "background_xdata"
      [] n = "subtracted" -> "subtracted_xdata"
      [] n = "map" -> "mapped_xdata"

CalledNames(calls) == {calls[j][1] : j \in 1..Len(calls)}

\* C1: an execute step, whether it completes or fails, leaves every host-owned output
\* as it was and makes no call of set_referenced_xdata; such calls are made by commit only.
C1_ExecuteLeavesOutputs ==
    [][/\ (runs' # runs) => (published' = published /\ last'.calls = <<>>)
       /\ (published' # published \/ last'.calls # <<>>) => last'.op = "commit"]_vars

\* An execute has just replaced the buffer while the outputs still hold an earlier result.
C1_Witness ==
    /\ last.op = "execute" /\ last.ok /\ runs = 2
    /\ \E n \in HandlerOutputs(kind) :
          published[n] \notin {None, Unset} /\ buf[ResultFor(n)] # published[n]

\* C2: a commit that succeeds publishes every declared output of the handler, and under
\* each output name exactly the value computed by the most recent execute that completed.
C2_CommitPublishesLatest ==
    (last.op = "commit" /\ last.ok) =>
        /\ CalledNames(last.calls) = HandlerOutputs(kind)
        /\ \A n \in HandlerOutputs(kind) :
              /\ completed[ResultFor(n)] \notin {None, Unset}
              /\ published[n] = completed[ResultFor(n)]

\* A successful commit of the result of the second of two executes.
C2_Witness ==
    /\ last.op = "commit" /\ last.ok
    /\ \A n \in HandlerOutputs(kind) : published[n].run = 2

\* C3: a commit on an instance on which no execute has completed fails, calls
\* set_referenced_xdata not at all and leaves every output without data.
C3_CommitBeforeExecuteFails ==
    (last.op = "commit" /\ NeverCompleted) =>
        /\ ~last.ok
        /\ last.calls = <<>>
        /\ \A n \in OutputNames : published[n] = None

\* A commit that failed after an execute that failed, on a handler without __init__ buffers.
C3_Witness ==
    /\ last.op = "commit" /\ ~last.ok /\ NeverCompleted
    /\ kind # FitBackground /\ last.error = "AttributeError" /\ runs = 1

IsBackgroundModel(i) == "background-model" \in registry[i].types
Matches(i) == registry[i].background_model_id = modelInput
InvokedIn(call) == {call.invoked[j] : j \in 1..Len(call.invoked)}

\* C4 as stated: in every execute, a component registered under 'background-model' is
\* invoked if and only if its background_model_id equals the model's structure_type.
C4_InvokedIffSelected ==
    last.op = "execute" =>
        \A i \in 1..Len(registry) :
            IsBackgroundModel(i) => (i \in InvokedIn(last) <=> Matches(i))

\* C4, amended: in every execute only components registered under 'background-model'
\* whose background_model_id equals the structure_type are invoked, and only such a
\* component made a buffered value; in every execute that completes, each of them is invoked.
C4_SelectedById ==
    /\ last.op = "execute" =>
          /\ \A i \in InvokedIn(last) : IsBackgroundModel(i) /\ Matches(i)
          /\ last.ok => \A i \in 1..Len(registry) :
                            (IsBackgroundModel(i) /\ Matches(i)) => i \in InvokedIn(last)
    /\ \A a \in Attributes : buf[a].by # 0 => (IsBackgroundModel(buf[a].by) /\ Matches(buf[a].by))

\* A completed execute that invoked one component and passed over one with another id.
C4_Witness ==
    /\ last.op = "execute" /\ last.ok /\ Len(last.invoked) = 1
    /\ \E i \in 1..Len(registry) : IsBackgroundModel(i) /\ ~Matches(i)
    /\ \E a \in Attributes : buf[a].by # 0

\* ------------------------------------------ plug-in load and component registration
\* The entity component_registered makes for a component (line 304).
BackgroundModelEntity == "background_model"
Entity(c) == [entity_id |-> c.background_model_id, base |-> BackgroundModelEntity]

\* component_registered: the entities it registers with DataStructure.
component_registered_any(component, component_types) == {Entity(component)}
component_registered(component, component_types) ==
    IF "background-model" \in component_types THEN {Entity(component)} ELSE {}

\* The load-time loop (lines 311-312) over the components already registered.
LoadLoop ==
    LET comps == GetComponentsByType("background-model")
    IN UNION {component_registered(registry[comps[j]], {"background-model"}) : j \in 1..Len(comps)}

\* Import of the plug-in module: the listener is installed, then the loop runs.
LoadPlugin ==
    /\ ~loaded
    /\ loaded' = TRUE
    /\ entities' = entities \cup LoadLoop
    /\ last' = [NoCall EXCEPT !.op = "load", !.calls = GetComponentsByType("background-model")]
    /\ UNCHANGED <<kind, registry, modelInput, fitGraphics, buf, published, completed, runs>>
    /\ UNCHANGED intervalVars
    /\ UNCHANGED menuVars

\* Registry.register_component(component, types): the component is added and the
\* component-registered event is fired to the listeners installed so far.
RegisterComponent ==
    /\ Len(registry) < MaxComponents
    /\ \E c \in Components :
         LET made == IF loaded THEN component_registered(c, c.types) ELSE {}
         IN /\ registry' = Append(registry, c)
            /\ entities' = entities \cup made
            /\ last' = [NoCall EXCEPT !.op = "register_component",
                                      !.calls = IF made = {} THEN <<>> ELSE <<Len(registry) + 1>>]
    /\ UNCHANGED <<kind, modelInput, fitGraphics, buf, published, completed, runs, loaded>>
    /\ UNCHANGED intervalVars
    /\ UNCHANGED menuVars

InitRegistry ==
    /\ registry = <<>>
    /\ loaded = FALSE
    /\ entities = {}
    /\ IdleHandler
    /\ IdleInterval
    /\ IdleMenu

NextRegistry == LoadPlugin \/ RegisterComponent

SpecRegistry == InitRegistry /\ [][NextRegistry]_vars

\* C5: once the plug-in is loaded, DataStructure holds, for every registered component
\* whose types contain 'background-model', an entity with the component's
\* background_model_id and base 'background_model', whether the component was registered
\* before or after the load; no other entity is registered, and a registration whose
\* types lack 'background-model' registers none.
C5_EntityPerBackgroundModel ==
    /\ loaded => \A i \in 1..Len(registry) :
                    IsBackgroundModel(i) => Entity(registry[i]) \in entities
    /\ entities \subseteq {Entity(registry[i]) : i \in {j \in 1..Len(registry) : IsBackgroundModel(j)}}
    /\ (last.op = "register_component" /\ ~IsBackgroundModel(Len(registry))) => last.calls = <<>>

\* Two background models with different ids are registered and each has its entity; the
\* second was registered after the load and got its entity through the listener.
C5_Witness ==
    /\ loaded /\ Len(registry) = 2 /\ Cardinality(entities) = 2
    /\ IsBackgroundModel(1) /\ IsBackgroundModel(2)
    /\ last.op = "register_component" /\ last.calls = <<2>>

\* ------------------------------------------------------- normalized_interval applied
Endpoints == (0 - MaxEndpoint)..MaxEndpoint

InitInterval ==
    /\ ivIn \in Endpoints \X Endpoints
    /\ ivOut = <<>>
    /\ registry = <<>>
    /\ loaded = TRUE
    /\ entities = {}
    /\ IdleHandler
    /\ IdleMenu

\* A call of normalized_interval on the interval of a graphic.
Normalize ==
    /\ ivOut = <<>>
    /\ ivOut' = normalized_interval(ivIn)
    /\ UNCHANGED <<ivIn, registry, loaded, entities>>
    /\ UNCHANGED handlerVars
    /\ UNCHANGED menuVars

\* The user drags one handle of the interval graphic.
Drag ==
    /\ ivOut # <<>>
    /\ \E e \in Endpoints : ivIn' \in {<<e, ivIn[2]>>, <<ivIn[1], e>>}
    /\ ivOut' = <<>>
    /\ UNCHANGED <<registry, loaded, entities>>
    /\ UNCHANGED handlerVars
    /\ UNCHANGED menuVars

NextInterval == Normalize \/ Drag

SpecInterval == InitInterval /\ [][NextInterval]_vars

ProcessingIds == {"eels.background_subtraction3", "eels.mapping3", "eels.subtract_background"}
RegisteredHandler(pid) ==
    CASE pid = "eels.background_subtraction3" -> FitBackground
      [] pid = "eels.mapping3" -> MapSignal
      [] pid = "eels.subtract_background" -> SubtractBackground

\* The parameters each execute takes (lines 49, 99, 140-144).
ExecuteParameters(k) ==
    CASE k = FitBackground -> {"eels_spectrum_data_item", "background_model", "fit_interval_graphics"}
      [] k = SubtractBackground -> {"spectrum_image_data_item", "background_model", "fit_interval_graphics"}
      [] k = MapSignal -> {"spectrum_image_data_item", "background_model", "fit_interval_graphics",
                           "signal_interval_graphic", "eels_spectrum_data_item"}

DataItem(x, n, d) == [xdata |-> x, navigable |-> n, datum_dimension_count |-> d]
Layer(d, l, f) == [data_item |-> d, label |-> l, fill_color |-> f]
Graphic(t) == [graphic_type |-> t, graphic_id |-> "", label |-> ""]

\* api.library.create_data_item / create_data_item_from_data: the new item is the last.
CreateDataItem(d, item) == [d EXCEPT !.items = Append(@, item), !.sources = Append(@, <<>>)]

\* The data items among the inputs of a computation, in the order given.
DataItemInputs(inputs) ==
    (IF "spectrum_image_data_item" \in DOMAIN inputs THEN inputs["spectrum_image_data_item"] ELSE <<>>)
    \o (IF "eels_spectrum_data_item" \in DOMAIN inputs THEN inputs["eels_spectrum_data_item"] ELSE <<>>)

\* api.library.create_computation: the computation is appended to the document's
\* computations; its outputs get its input data items as their source data items.
CreateComputation(d, pid, inputs, outputs) ==
    [d EXCEPT !.computations = Append(@, [processing_id |-> pid, inputs |-> inputs, outputs |-> outputs]),
              !.sources = [i \in DOMAIN @ |->
                             IF \E n \in DOMAIN outputs : outputs[n] = i
                             THEN DataItemInputs(inputs) ELSE @[i]]]

\* display_item.append_display_data_channel_for_data_item
AppendDisplayDataChannel(disp, item) ==
    [disp EXCEPT !.data_items = Append(@, item), !.layers = Append(@, Layer(item, "", ""))]

\* display_item.move_display_layer_at_index_backward (index from 0)
MoveDisplayLayerBackward(disp, index) ==
    IF index + 2 > Len(disp.layers) THEN disp
    ELSE [disp EXCEPT !.layers = [j \in DOMAIN @ |->
                                    IF j = index + 1 THEN @[index + 2]
                                    ELSE IF j = index + 2 THEN @[index + 1] ELSE @[j]]]

\* display_item._set_display_layer_properties (index from 0)
SetDisplayLayerProperties(disp, index, label, fill) ==
    IF index + 1 > Len(disp.layers) THEN disp
    ELSE [disp EXCEPT !.layers[index + 1].label = label, !.layers[index + 1].fill_color = fill]

IsInterval(d, g) == d.graphics[g].graphic_type = "interval-graphic"

\* add_background_subtraction_computation (lines 175-204)
FitInputs(data_item, structure, intervals) ==
    [eels_spectrum_data_item |-> <<data_item>>, background_model |-> <<structure>>,
     fit_interval_graphics |-> intervals]

AddBackgroundSubtractionComputation(d, data_item, intervals) ==
    LET background == Len(d.items) + 1
        signal == Len(d.items) + 2
        structure == Len(d.structures) + 1
        d1 == CreateDataItem(CreateDataItem(d, DataItem(FALSE, FALSE, 0)), DataItem(FALSE, FALSE, 0))
        d2 == [d1 EXCEPT !.structures = Append(@, [structure_type |-> "power_law_fit_background_model",
                                                    source |-> background])]
        d3 == CreateComputation(d2, "eels.background_subtraction3",
                                FitInputs(data_item, structure, intervals),
                                [background |-> background, subtracted |-> signal])
        d4 == [d3 EXCEPT !.graphics = [g \in DOMAIN @ |->
                                         IF \E j \in 1..Len(intervals) : intervals[j] = g
                                         THEN [@[g] EXCEPT !.graphic_id = "background", !.label = "Background"]
                                         ELSE @[g]]]
        v1 == AppendDisplayDataChannel(AppendDisplayDataChannel(d4.display, background), signal)
        v2 == MoveDisplayLayerBackward(MoveDisplayLayerBackward(v1, 0), 1)
        v3 == SetDisplayLayerProperties(v2, 0, "Background", "rgba(255, 0, 0, 0.3)")
        v4 == SetDisplayLayerProperties(v3, 1, "Signal", "#0F0")
        v5 == SetDisplayLayerProperties(v4, 2, "Data", "#1E90FF")
    IN [d4 EXCEPT !.display = [v5 EXCEPT !.legend_position = "top-right"]]

\* The selected graphics that subtract_background_from_signal takes (lines 211-212).
TargetIntervalsAll(d, s) == s.graphics
TargetIntervals(d, s) == SelectSeq(s.graphics, LAMBDA g : IsInterval(d, g))

\* subtract_background_from_signal (lines 207-214): the document after the command.
SubtractBackgroundFromSignal(d, s) ==
    IF s.display /\ s.data_item # 0 /\ TargetIntervals(d, s) # <<>>
    THEN AddBackgroundSubtractionComputation(d, s.data_item, TargetIntervals(d, s))
    ELSE d

InSeq(x, q) == \E j \in 1..Len(q) : q[j] = x

\* The test of lines 222-223 and 259-260 on one computation.
IsDisplayedFit(d, c) ==
    /\ c.processing_id = "eels.background_subtraction3"
    /\ InSeq(c.inputs["eels_spectrum_data_item"][1], d.display.data_items)
    /\ InSeq(c.outputs["subtracted"], d.display.data_items)

\* The scan of the computations with its break (lines 221-249, 258-289): the position of
\* the computation the command works on, 0 when the scan ends without one.
RECURSIVE ScanLast(_, _)
ScanLast(d, j) ==
    IF j < 1 THEN 0
    ELSE IF IsDisplayedFit(d, d.computations[j]) THEN j ELSE ScanLast(d, j - 1)
RECURSIVE Scan(_, _)
Scan(d, j) ==
    IF j > Len(d.computations) THEN 0
    ELSE IF IsDisplayedFit(d, d.computations[j]) THEN j ELSE Scan(d, j + 1)

MatchedLast(d) == ScanLast(d, Len(d.computations))
Matched(d) == Scan(d, 1)

\* document_model.get_source_data_items
GetSourceDataItems(d, item) == d.sources[item]

\* The tests of lines 231-234 and 268-271 on the spectrum of computation c:
\* "create" when they pass, "error" when the assertion fails, "skip" otherwise.
SourceTest(d, c) ==
    LET source_data_items == GetSourceDataItems(d, c.inputs["eels_spectrum_data_item"][1])
    IN IF Len(source_data_items) # 1 THEN "skip"
       ELSE IF ~d.items[source_data_items[1]].xdata THEN "error"
       ELSE IF d.items[source_data_items[1]].navigable
               /\ d.items[source_data_items[1]].datum_dimension_count = 1 THEN "create"
       ELSE "skip"

\* window.display_data_item
DisplayDataItem(d, item) == [d EXCEPT !.shown = Append(@, item)]

\* The inputs of the computation subtract_background creates (lines 239-243).
SubtractInputsCopied(d, c) ==
    [spectrum_image_data_item |-> <<GetSourceDataItems(d, c.inputs["eels_spectrum_data_item"][1])[1]>>,
     fit_interval_graphics |-> [j \in 1..Len(c.inputs["fit_interval_graphics"]) |-> Len(d.graphics) + j],
     background_model |-> <<Len(d.structures) + 1>>]
SubtractInputs(d, c) ==
    [spectrum_image_data_item |-> <<GetSourceDataItems(d, c.inputs["eels_spectrum_data_item"][1])[1]>>,
     fit_interval_graphics |-> c.inputs["fit_interval_graphics"],
     background_model |-> c.inputs["background_model"]]

\* subtract_background (lines 217-249): the document after the command.
SubtractBackgroundCommand(d, s) ==
    IF ~s.display \/ Matched(d) = 0 THEN d
    ELSE LET c == d.computations[Matched(d)]
         IN IF SourceTest(d, c) # "create" THEN d
            ELSE LET subtracted == Len(d.items) + 1
                     d1 == CreateDataItem(d, DataItem(TRUE, FALSE, 2))
                     d2 == CreateComputation(d1, "eels.subtract_background", SubtractInputs(d, c),
                                             [subtracted |-> subtracted])
                 IN DisplayDataItem(d2, subtracted)

\* The graphic use_signal_for_map takes as the signal interval (lines 254-255), 0 for None.
TargetIntervalFirstSelected(d, s) ==
    IF s.display /\ Len(s.graphics) >= 1 /\ IsInterval(d, s.graphics[1]) THEN s.graphics[1] ELSE 0
TargetInterval(d, s) ==
    IF s.display /\ Len(s.graphics) = 1 /\ IsInterval(d, s.graphics[1]) THEN s.graphics[1] ELSE 0

\* The inputs of the computation use_signal_for_map creates (lines 277-283).
MapInputsWithoutSpectrum(d, c, signal_interval_graphic) ==
    [spectrum_image_data_item |-> <<GetSourceDataItems(d, c.inputs["eels_spectrum_data_item"][1])[1]>>,
     fit_interval_graphics |-> c.inputs["fit_interval_graphics"],
     signal_interval_graphic |-> <<signal_interval_graphic>>,
     background_model |-> c.inputs["background_model"]]
MapInputs(d, c, signal_interval_graphic) ==
    [spectrum_image_data_item |-> <<GetSourceDataItems(d, c.inputs["eels_spectrum_data_item"][1])[1]>>,
     eels_spectrum_data_item |-> c.inputs["eels_spectrum_data_item"],
     fit_interval_graphics |-> c.inputs["fit_interval_graphics"],
     signal_interval_graphic |-> <<signal_interval_graphic>>,
     background_model |-> c.inputs["background_model"]]

\* use_signal_for_map (lines 252-289): the document after the command.
UseSignalForMapCommand(d, s) ==
    IF ~s.display \/ TargetInterval(d, s) = 0 \/ Matched(d) = 0 THEN d
    ELSE LET c == d.computations[Matched(d)]
         IN IF SourceTest(d, c) # "create" THEN d
            ELSE LET map == Len(d.items) + 1
                     d1 == CreateDataItem(d, DataItem(TRUE, FALSE, 2))
                     d2 == CreateComputation(d1, "eels.mapping3", MapInputs(d, c, TargetInterval(d, s)),
                                             [map |-> map])
                 IN DisplayDataItem(d2, map)

\* The user removes a data item from the display.
RemoveFromDisplay(d, item) ==
    [d EXCEPT !.display.data_items = SelectSeq(@, LAMBDA x : x # item),
              !.display.layers = SelectSeq(@, LAMBDA l : l.data_item # item)]

\* The selected graphics, in the order of the display's graphics.
RECURSIVE Ascending(_, _)
Ascending(S, n) ==
    IF n = 0 THEN <<>>
    ELSE IF n \in S THEN Append(Ascending(S, n - 1), n) ELSE Ascending(S, n - 1)

\* What the window can report when a command is chosen: no target display, or the
\* display with a target data item (0 for None) and its selected graphics.
WindowStates(d) ==
    {[display |-> FALSE, data_item |-> 0, graphics |-> <<>>]}
    \cup {[display |-> TRUE, data_item |-> i, graphics |-> Ascending(G, Len(d.graphics))] :
             i \in {0} \cup {d.display.data_items[j] : j \in 1..Len(d.display.data_items)},
             G \in SUBSET (1..Len(d.graphics))}

MenuStep(name, d) ==
    /\ doc' = d
    /\ menu' = [op |-> name, n |-> menu.n + 1]
    /\ UNCHANGED <<registry, loaded, entities>>
    /\ UNCHANGED handlerVars
    /\ UNCHANGED intervalVars

MenuSubtractBackgroundFromSignal ==
    /\ menu.n < MaxCommands
    /\ \E s \in WindowStates(doc) :
         sel' = s /\ MenuStep("subtract_background_from_signal", SubtractBackgroundFromSignal(doc, s))

MenuSubtractBackground ==
    /\ menu.n < MaxCommands
    /\ \E s \in WindowStates(doc) :
         sel' = s /\ MenuStep("subtract_background", SubtractBackgroundCommand(doc, s))

MenuUseSignalForMap ==
    /\ menu.n < MaxCommands
    /\ \E s \in WindowStates(doc) :
         sel' = s /\ MenuStep("use_signal_for_map", UseSignalForMapCommand(doc, s))

UserRemovesFromDisplay ==
    /\ menu.n < MaxCommands
    /\ \E j \in 1..Len(doc.display.data_items) :
         sel' = sel /\ MenuStep("remove_from_display", RemoveFromDisplay(doc, doc.display.data_items[j]))

\* The documents the plug-in is started on: two images (1, 2), two spectra (3, 4) picked
\* from them and shown in one line plot with two interval graphics and a rectangle;
\* the first image and the sources of the first spectrum vary. The document may already
\* hold the background subtraction of the first spectrum, built by an earlier session.
SpectrumImage == DataItem(TRUE, TRUE, 1)
Spectrum == DataItem(TRUE, FALSE, 1)
FirstSetups ==
    {<<SpectrumImage, <<1>> >>, <<SpectrumImage, <<>> >>, <<SpectrumImage, <<1, 2>> >>,
     <<DataItem(TRUE, FALSE, 1), <<1>> >>, <<DataItem(TRUE, TRUE, 2), <<1>> >>,
     <<DataItem(FALSE, FALSE, 0), <<1>> >>}

PlainDocument(setup) ==
    [items |-> <<setup[1], SpectrumImage, Spectrum, Spectrum>>,
     sources |-> << <<>>, <<>>, setup[2], <<2>> >>,
     graphics |-> <<Graphic("interval-graphic"), Graphic("interval-graphic"), Graphic("rect-graphic")>>,
     structures |-> <<>>,
     computations |-> <<>>,
     display |-> [data_items |-> <<3, 4>>,
                  layers |-> <<Layer(3, "", ""), Layer(4, "", "")>>,
                  legend_position |-> ""],
     shown |-> <<>>]

FirstDocuments ==
    {PlainDocument(setup) : setup \in FirstSetups}
    \cup {AddBackgroundSubtractionComputation(PlainDocument(setup), 3, <<1>>) : setup \in FirstSetups}

InitMenu ==
    /\ doc \in FirstDocuments
    /\ sel = [display |-> FALSE, data_item |-> 0, graphics |-> <<>>]
    /\ menu = [op |-> "none", n |-> 0]
    /\ registry = <<>>
    /\ loaded = TRUE
    /\ entities = {}
    /\ IdleHandler
    /\ IdleInterval

NextMenu ==
    \/ MenuSubtractBackgroundFromSignal
    \/ MenuSubtractBackground
    \/ MenuUseSignalForMap
    \/ UserRemovesFromDisplay

SpecMenu == InitMenu /\ [][NextMenu]_vars

\* ------------------------------------------------------ claims on the menu commands
LastComputation(d) == d.computations[Len(d.computations)]
Displayed(d) == {d.display.data_items[j] : j \in 1..Len(d.display.data_items)}
SpectrumOf(c) == c.inputs["eels_spectrum_data_item"][1]

\* C7: every computation in the document has a processing id the plug-in registered, and
\* its input names and output names are those its handler declares, its execute takes
\* and its commit publishes.
C7_ComputationsFitHandlers ==
    \A j \in 1..Len(doc.computations) :
        LET c == doc.computations[j]
        IN /\ c.processing_id \in ProcessingIds
           /\ DOMAIN c.inputs = HandlerInputs(RegisteredHandler(c.processing_id))
           /\ DOMAIN c.inputs = ExecuteParameters(RegisteredHandler(c.processing_id))
           /\ DOMAIN c.outputs = HandlerOutputs(RegisteredHandler(c.processing_id))
           /\ DOMAIN c.outputs = CalledNames(CommitPairs(RegisteredHandler(c.processing_id)))

\* The document holds a computation of each of the three kinds.
C7_Witness ==
    \A pid \in ProcessingIds :
        \E j \in 1..Len(doc.computations) : doc.computations[j].processing_id = pid

\* A step of the named command, with the window state it was given in sel'.
CommandStep(name) == menu'.op = name /\ menu'.n = menu.n + 1

SelectedIntervals(d, s) ==
    SelectSeq(s.graphics, LAMBDA g : d.graphics[g].graphic_type = "interval-graphic")

\* C8: subtract_background_from_signal creates the 'eels.background_subtraction3'
\* computation, two data items and a power-law data structure exactly when the window has
\* a target display, a target data item and a selected interval graphic; its
\* fit_interval_graphics are the selected interval graphics, in order; otherwise the
\* document, its graphics and its display stay as they were.
C8_CreatesIffTargetAndIntervals ==
    [][CommandStep("subtract_background_from_signal") =>
        IF sel'.display /\ sel'.data_item # 0 /\ SelectedIntervals(doc, sel') # <<>>
        THEN LET c == LastComputation(doc')
             IN /\ Len(doc'.computations) = Len(doc.computations) + 1
                /\ Len(doc'.items) = Len(doc.items) + 2
                /\ Len(doc'.structures) = Len(doc.structures) + 1
                /\ c.processing_id = "eels.background_subtraction3"
                /\ c.inputs["fit_interval_graphics"] = SelectedIntervals(doc, sel')
                /\ c.inputs["eels_spectrum_data_item"] = <<sel'.data_item>>
                /\ c.inputs["background_model"] = <<Len(doc'.structures)>>
                /\ {c.outputs["background"], c.outputs["subtracted"]}
                      = {Len(doc.items) + 1, Len(doc.items) + 2}
        ELSE doc' = doc]_vars

\* The command ran with two intervals and a rectangle selected and took the two intervals.
C8_Witness ==
    /\ menu.op = "subtract_background_from_signal"
    /\ sel.display /\ sel.data_item # 0 /\ sel.graphics = <<1, 2, 3>>
    /\ Len(doc.computations) > 0
    /\ LastComputation(doc).processing_id = "eels.background_subtraction3"
    /\ LastComputation(doc).inputs["fit_interval_graphics"] = <<1, 2>>

\* The displayed background-subtraction computations of a document, by position.
DisplayedFits(d) ==
    {j \in 1..Len(d.computations) :
        /\ d.computations[j].processing_id = "eels.background_subtraction3"
        /\ SpectrumOf(d.computations[j]) \in Displayed(d)
        /\ d.computations[j].outputs["subtracted"] \in Displayed(d)}
FirstDisplayedFit(d) ==
    IF DisplayedFits(d) = {} THEN 0
    ELSE CHOOSE j \in DisplayedFits(d) : \A i \in DisplayedFits(d) : j <= i

\* The spectrum of computation j has one source, navigable with datum dimension count 1.
HasSpectrumImage(d, j) ==
    LET src == d.sources[SpectrumOf(d.computations[j])]
    IN /\ Len(src) = 1
       /\ d.items[src[1]].navigable
       /\ d.items[src[1]].datum_dimension_count = 1

ScanningStep == CommandStep("subtract_background") \/ CommandStep("use_signal_for_map")

\* C9: one run of subtract_background or use_signal_for_map creates at most one data item
\* and one computation, and creates them only if the first displayed
\* 'eels.background_subtraction3' computation, in document order, has a spectrum with one
\* source that is navigable with datum dimension count 1; otherwise the document stays as
\* it was, whatever the later computations are.
C9_FirstMatchDecides ==
    [][ScanningStep =>
        /\ Len(doc'.items) <= Len(doc.items) + 1
        /\ Len(doc'.computations) <= Len(doc.computations) + 1
        /\ Len(doc'.items) - Len(doc.items) = Len(doc'.computations) - Len(doc.computations)
        /\ doc' # doc =>
              /\ Len(doc'.computations) = Len(doc.computations) + 1
              /\ FirstDisplayedFit(doc) # 0
              /\ HasSpectrumImage(doc, FirstDisplayedFit(doc))
        /\ (~sel'.display \/ FirstDisplayedFit(doc) = 0) => doc' = doc]_vars

\* subtract_background ran on a display with two background subtractions, the first without a
\* spectrum image and the second with one, and created nothing.
C9_Witness ==
    /\ menu.op = "subtract_background" /\ sel.display
    /\ Cardinality(DisplayedFits(doc)) = 2
    /\ ~HasSpectrumImage(doc, FirstDisplayedFit(doc))
    /\ \E j \in DisplayedFits(doc) : HasSpectrumImage(doc, j)
    /\ \A j \in 1..Len(doc.computations) :
          doc.computations[j].processing_id = "eels.background_subtraction3"

\* C10: the computation created by subtract_background or use_signal_for_map has as
\* fit_interval_graphics and background_model the graphics and the data structure of the
\* first displayed 'eels.background_subtraction3' computation themselves (no graphic and
\* no data structure is created), and as spectrum_image_data_item the one source of that
\* computation's spectrum.
C10_SharesInputsOfMatched ==
    [][(ScanningStep /\ doc' # doc) =>
        LET m == doc.computations[FirstDisplayedFit(doc)]
            c == LastComputation(doc')
        IN /\ c.inputs["fit_interval_graphics"] = m.inputs["fit_interval_graphics"]
           /\ c.inputs["background_model"] = m.inputs["background_model"]
           /\ c.inputs["spectrum_image_data_item"] = doc.sources[SpectrumOf(m)]
           /\ Len(doc'.graphics) = Len(doc.graphics)
           /\ Len(doc'.structures) = Len(doc.structures)
           /\ \A j \in 1..Len(doc.computations) : doc'.computations[j] = doc.computations[j]]_vars

\* A mapping computation that shares two fit interval graphics and the data structure
\* with a background subtraction.
C10_Witness ==
    /\ menu.op = "use_signal_for_map"
    /\ Len(doc.computations) > 1
    /\ LastComputation(doc).processing_id = "eels.mapping3"
    /\ Len(LastComputation(doc).inputs["fit_interval_graphics"]) = 2
    /\ \E j \in DisplayedFits(doc) :
          /\ doc.computations[j].inputs["fit_interval_graphics"]
                = LastComputation(doc).inputs["fit_interval_graphics"]
          /\ doc.computations[j].inputs["background_model"]
                = LastComputation(doc).inputs["background_model"]

\* C11: use_signal_for_map adds a computation only when the window has a target display
\* with exactly one selected graphic and that graphic is an interval graphic; the
\* computation added is then one "eels.mapping3" whose signal_interval_graphic input is
\* that graphic. In every other case (no target display, no or several selected graphics,
\* one selected graphic of another type) the document is left as it was: no data item,
\* no computation, nothing displayed.
C11_MapsOnlySingleInterval ==
    [][CommandStep("use_signal_for_map") =>
        LET s == sel'
            single == /\ s.display
                      /\ Len(s.graphics) = 1
                      /\ doc.graphics[s.graphics[1]].graphic_type = "interval-graphic"
        IN /\ ~single => /\ doc'.items = doc.items
                         /\ doc'.computations = doc.computations
                         /\ doc'.shown = doc.shown
                         /\ doc' = doc
           /\ doc'.computations # doc.computations =>
                /\ single
                /\ Len(doc'.computations) = Len(doc.computations) + 1
                /\ SubSeq(doc'.computations, 1, Len(doc.computations)) = doc.computations
                /\ LastComputation(doc').processing_id = "eels.mapping3"
                /\ LastComputation(doc').inputs["signal_interval_graphic"] = <<s.graphics[1]>>]_vars

\* use_signal_for_map was chosen with the second interval graphic alone selected and
\* has added a mapping computation taking it as the signal interval.
C11_Witness ==
    /\ menu.op = "use_signal_for_map"
    /\ sel.display /\ sel.graphics = <<2>>
    /\ doc.computations # <<>>
    /\ LastComputation(doc).processing_id = "eels.mapping3"
    /\ LastComputation(doc).inputs["signal_interval_graphic"] = <<2>>
    /\ doc.shown # <<>>

\* -------------------------------------------------- claims on the fallback results
\* No component registered under "background-model" has the model's structure_type.
NoMatchingComponent == \A i \in 1..Len(registry) : ~(IsBackgroundModel(i) /\ Matches(i))

\* The inputs of the last execute pass its assertions and, in EELSFitBackground, there
\* is at least one fit interval graphic.
InputsPass(call) ==
    CASE kind = FitBackground -> call.data.spectrum = "ok" /\ fitGraphics # <<>>
      [] kind = SubtractBackground -> call.data.image = "ok"
      [] kind = MapSignal -> call.data.image = "ok" /\ call.data.spectrum \in {"absent", "ok"}

LowerBounds(graphics) ==
    {IF graphics[i][1] <= graphics[i][2] THEN graphics[i][1] ELSE graphics[i][2] :
        i \in 1..Len(graphics)}

\* The buffers hold the fallback of execute number n: for EELSFitBackground zeros and the
\* spectrum slice over (fit minimum, 1.0), for the other two zeros of navigation shape.
FallbackBuffered(b, call, n) ==
    CASE kind = FitBackground ->
           /\ b["background_xdata"] = XData(n, 0, "zeros_like")
           /\ b["subtracted_xdata"] = XData(n, 0, "signal_slice")
           /\ call.interval[2] = One
           /\ call.interval[1] \in LowerBounds(fitGraphics)
           /\ \A l \in LowerBounds(fitGraphics) : call.interval[1] <= l
      [] kind = SubtractBackground -> b["subtracted_xdata"] = XData(n, 0, "zeros")
      [] kind = MapSignal -> b["mapped_xdata"] = XData(n, 0, "zeros")

\* C12 as stated: whenever no registered background model has the model's
\* structure_type, an execute invokes no component and completes with the fallback
\* result in the buffers.
C12_FallbackAlways ==
    (last.op = "execute" /\ NoMatchingComponent) =>
        /\ last.invoked = <<>>
        /\ last.ok
        /\ FallbackBuffered(buf, last, runs)

\* C12, amended: when no registered background model has the model's structure_type, an
\* execute invokes no component; if its inputs pass its checks it completes and buffers
\* the fallback result, and the commit that follows succeeds and publishes that
\* fallback; if they do not, it fails on its inputs (AssertionError or ValueError).
C12_FallbackWhenInputsPass ==
    [][/\ (runs' # runs /\ NoMatchingComponent) =>
             /\ last'.invoked = <<>>
             /\ last'.ok <=> InputsPass(last')
             /\ last'.ok => FallbackBuffered(buf', last', runs')
             /\ ~last'.ok => /\ last'.error \in {"AssertionError", "ValueError"}
                             /\ buf' = buf
       /\ (last.op = "execute" /\ last.ok /\ NoMatchingComponent /\ last'.op = "commit") =>
             /\ last'.ok
             /\ \A n \in HandlerOutputs(kind) : published'[n] = buf[ResultFor(n)]
             /\ FallbackBuffered(buf', last, runs)]_vars

\* A commit has published the fallback of an execute that found no matching component
\* although a background model with another identifier is registered.
C12_Witness ==
    /\ NoMatchingComponent
    /\ \E i \in 1..Len(registry) : IsBackgroundModel(i)
    /\ last.op = "commit" /\ last.ok
    /\ \A n \in HandlerOutputs(kind) : published[n].by = 0 /\ published[n].run = runs
    /\ runs >= 1

\* ------------------------------------ EELSFitBackground over its fit interval graphics
\* The intervals of the fit interval graphics, on the grid of 0.5 in which 1.0 is One;
\* an interval is the pair of endpoints in the order they were dragged.
MaxGraphics == 2
MaxCoord == 2
Coords == 0..MaxCoord
Intervals == Coords \X Coords
PowerLaw == [background_model_id |-> "power_law_fit_background_model", types |-> {"background-model"}]

InitFit ==
    /\ kind = FitBackground
    /\ registry = <<PowerLaw>>
    /\ modelInput = PowerLaw.background_model_id
    /\ fitGraphics \in SeqsUpTo(Intervals, MaxGraphics)
    /\ buf = HandlerInit(kind)
    /\ published = [n \in OutputNames |-> None]
    /\ completed = [a \in Attributes |-> Unset]
    /\ runs = 0
    /\ last = NoCall
    /\ loaded = TRUE
    /\ entities = {}
    /\ IdleInterval
    /\ IdleMenu

NextFit == Execute

SpecFit == InitFit /\ [][NextFit]_vars

\* C13: when EELSFitBackground.execute invokes fit_background, fit_intervals holds one
\* interval per fit interval graphic, in the graphics' order, each with the graphic's two
\* endpoints and the lower one first; background_interval is (m, 1.0) where m is the
\* least of the intervals' lower bounds, so it starts at or before every fit interval.
C13_FitIntervalsPassed ==
    (last.op = "execute" /\ last.invoked # <<>>) =>
        /\ Len(last.fit_intervals) = Len(fitGraphics)
        /\ \A i \in 1..Len(fitGraphics) :
              LET g == fitGraphics[i]
                  f == last.fit_intervals[i]
              IN /\ f[1] <= f[2]
                 /\ f \in {g, <<g[2], g[1]>>}
                 /\ last.interval[1] <= f[1]
                 /\ last.interval[1] <= g[1] /\ last.interval[1] <= g[2]
        /\ \E i \in 1..Len(fitGraphics) : last.interval[1] = last.fit_intervals[i][1]
        /\ last.interval[2] = One

\* fit_background was invoked for two graphics, the first dragged backwards and the
\* second starting below the first, so the background interval starts at the second's.
C13_Witness ==
    /\ last.op = "execute" /\ last.invoked # <<>>
    /\ Len(fitGraphics) = 2
    /\ fitGraphics[1][1] > fitGraphics[1][2]
    /\ fitGraphics[2][1] < fitGraphics[1][2]
    /\ last.interval = <<fitGraphics[2][1], One>>
    /\ last.fit_intervals[1] = <<fitGraphics[1][2], fitGraphics[1][1]>>

\* ------------------------------------------ claims on the subtraction and the buffers
\* C14: in an execute of EELSFitBackground, Core.calibrated_subtract_spectrum is called
\* for an invoked component exactly when the fit result it returned holds no subtracted
\* spectrum under "subtracted_spectrum"; when the execute completes, the buffered
\* 'subtracted' is the subtracted spectrum of the fit result it kept if that result holds
\* one, and the calibrated subtraction made for that result otherwise.
C14_SubtractsOnlyWhenAbsent ==
    (kind = FitBackground /\ last.op = "execute") =>
        /\ Len(last.returned) = Len(last.invoked)
        /\ \A j \in 1..Len(last.invoked) :
              (\E c \in 1..Len(last.core) : last.core[c] = last.invoked[j])
                 <=> last.returned[j] \in {"plain", "subtracted_is_none"}
        /\ Len(last.core) = Cardinality({j \in 1..Len(last.invoked) :
                                            last.returned[j] \in {"plain", "subtracted_is_none"}})
        /\ (last.ok /\ last.invoked # <<>>) =>
              LET j == Len(last.invoked)
                  i == last.invoked[j]
              IN /\ last.returned[j] = "with_subtracted" =>
                       buf["subtracted_xdata"] = XData(runs, i, "subtracted_spectrum")
                 /\ last.returned[j] # "with_subtracted" =>
                       buf["subtracted_xdata"] = XData(runs, i, "calibrated_subtract_spectrum")

\* An execute completed on a fit result that held a subtracted spectrum: that spectrum
\* is buffered and no calibrated subtraction was made.
C14_Witness ==
    /\ kind = FitBackground /\ last.op = "execute" /\ last.ok
    /\ last.returned = <<"with_subtracted">>
    /\ last.core = <<>>
    /\ buf["subtracted_xdata"].what = "subtracted_spectrum"
    /\ buf["background_xdata"].what = "background_model"

\* C15: an execute that fails leaves every private buffer as it was, which is as the last
\* execute that completed left it; the buffers change only in an execute that completes;
\* the 'background' and 'subtracted' buffers of EELSFitBackground change together and
\* always come from the same execute; a commit that succeeds after a failed execute
\* publishes, under every output, the result of the last execute that completed.
C15_FailedExecuteKeepsBuffers ==
    [][/\ (runs' # runs /\ ~last'.ok) => (buf' = buf /\ completed' = completed)
       /\ buf' # buf => (runs' # runs /\ last'.op = "execute" /\ last'.ok)
       /\ \A a \in Assigned(kind) :
             /\ completed'[a] # Unset => buf'[a] = completed'[a]
             /\ completed'[a] = Unset => buf'[a] = HandlerInit(kind)[a]
       /\ kind = FitBackground =>
             /\ (buf'["background_xdata"] # buf["background_xdata"])
                   <=> (buf'["subtracted_xdata"] # buf["subtracted_xdata"])
             /\ buf'["background_xdata"].run = buf'["subtracted_xdata"].run
       /\ (last.op = "execute" /\ ~last.ok /\ last'.op = "commit" /\ last'.ok) =>
             /\ \A n \in HandlerOutputs(kind) : published'[n] = completed[ResultFor(n)]
             /\ \A n, m \in HandlerOutputs(kind) : published'[n].run = published'[m].run]_vars

\* EELSFitBackground: the first execute completed on a component's fit, the second
\* failed, and the commit then published both outputs of the first.
C15_Witness ==
    /\ kind = FitBackground /\ runs = 2
    /\ last.op = "commit" /\ last.ok
    /\ published["background"].run = 1 /\ published["subtracted"].run = 1
    /\ published["background"].by # 0
    /\ buf["background_xdata"] = published["background"]
    /\ buf["subtracted_xdata"] = published["subtracted"]

====
